---- MODULE Spec2Model ----
(***************************************************************************)
(* Model of the slash-command message lifecycle and command-schema value   *)
(* objects of dis_interact/model.py.                                       *)
(*                                                                         *)
(* Python's None is the empty tuple <<>> and a present value x is <<x>>    *)
(* wherever a field is Optional; error kinds are strings.                  *)
(***************************************************************************)
EXTENDS Integers, Sequences, FiniteSets, TLC

\* ------------------------------------------------------------------ bounds
MaxCalls == 2      \* calls of delete and _slash_edit by the application
MaxDelay == 1      \* largest delay (in clock ticks) passed to delete

None == <<>>
Some(x) == <<x>>

\* Python truthiness of an Optional[int]: None and 0 are falsy
Truthy(d) == d # None /\ d[1] # 0

\* the (interaction_token, id) a Message is constructed with
Messages ==
    {[interaction_token |-> "tokA", id |-> "m1"],
     [interaction_token |-> "tokB", id |-> "m2"]}
\* self._state.allowed_mentions, the client's default policy read by an edit
StateMentions == {None, Some("default")}
Delays == {None} \cup {Some(n) : n \in 0..MaxDelay}

\* outcomes of one call of the transport collaborator
Outcomes == {"ok", "Forbidden", "OtherError"}

VARIABLES
    token,      \* Message.__interaction_token
    msgId,      \* Message.id
    pc,         \* where the calling coroutine is suspended
    calls,      \* the invocations of Message.delete, in order
    tasks,      \* the wrap() tasks handed to loop.create_task, in order
    log,        \* every deletion request handed to the transport
    nEdits,     \* invocations of _slash_edit so far
    edit,       \* the running / last invocation of _slash_edit
    optIn,      \* the keyword arguments given to BaseOption(...)
    optOut,     \* what BaseOption(**optIn) returned or raised
    eqIn,       \* the two value entities compared with ==, as constructor calls
    eqOut,      \* the entities built and what x == y and y == x gave
    rtIn,       \* the command tree serialized to its registration payload
    rtOut,      \* what parsing that payload gave
    cmdIn,      \* the arguments given to Command(...)
    cmdOut,     \* what Command(...) returned or raised
    payIn,      \* the message and the arguments of an edit that builds a payload
    payOut      \* the payload that edit built, or what it raised

vars == <<token, msgId, pc, calls, tasks, log, nEdits, edit, optIn, optOut,
          eqIn, eqOut, rtIn, rtOut, cmdIn, cmdOut, payIn, payOut>>

\* the variables of the value entities, which no Message operation touches
values ==
    <<optIn, optOut, eqIn, eqOut, rtIn, rtOut, cmdIn, cmdOut, payIn, payOut>>

NoEdit == [st |-> "none", err |-> "None", files |-> <<>>, closed |-> {}]

\* ---------------------------------------------------------------- BaseOption
MaxDepth == 1      \* nesting depth of the option declarations

SUBCOMMAND == 1
SUBCOMMAND_GROUP == 2

Raised(kind, code) == [err |-> kind, code |-> code, val |-> None]
Built(v) == [err |-> "None", code |-> "None", val |-> Some(v)]
NotBuilt == [err |-> "pending", code |-> "None", val |-> None]

\* `a, b = seq` binds its two targets only when seq holds two values
Unpacks(seq, targets) == Len(seq) = targets

\* `x is not []`: the [] is a new list object, identical to no other object
IsNotNewList(x) == TRUE

\* BaseChoice.__init__
BaseChoice(kw) == [name |-> kw.name, value |-> kw.value]

\* BaseOption.__init__(**kw); an absent `required`, `options` or `choices`
\* takes its default (False, [], [])
RECURSIVE BaseOption(_)
BaseOption(kw) ==
    IF ~Unpacks(<<>>, 2) THEN Raised("ValueError", "None")
    ELSE IF kw.type = None
    THEN Raised("InteractionException", "INCORRECT_COMMAND_DATA")
    ELSE
    LET nested == kw.type[1] \in {SUBCOMMAND, SUBCOMMAND_GROUP}
        kids == IF nested /\ IsNotNewList(kw.options)
                THEN [i \in 1..Len(kw.options) |-> BaseOption(kw.options[i])]
                ELSE <<>>
        bad == {i \in 1..Len(kids) : kids[i].err # "None"}
    IN  IF bad # {}
        THEN kids[CHOOSE i \in bad : \A j \in bad : i <= j]
        ELSE IF nested /\ ~IsNotNewList(kw.options) /\ kw.type[1] = SUBCOMMAND_GROUP
        THEN Raised("InteractionException", "INCORRECT_COMMAND_DATA")
        ELSE Built([name |-> kw.name,
                    description |-> kw.description,
                    required |-> IF kw.required = None THEN FALSE ELSE kw.required[1],
                    options |-> [i \in 1..Len(kids) |-> kids[i].val[1]],
                    choices |-> [i \in 1..Len(kw.choices) |-> BaseChoice(kw.choices[i])]])

\* the declarations an option is built from
OptionNames == {"count", "name"}
\* `type` omitted, or a subcommand, a subcommand group, an integer option
OptionTypes == {None, Some(SUBCOMMAND), Some(SUBCOMMAND_GROUP), Some(4)}
ChoiceLists == {<<>>, <<[name |-> "one", value |-> 1]>>}

RECURSIVE OptionDecls(_)
\* the declarations nested at most k deep; child lists hold one declaration of
\* depth below k, or two leaves
ChildDecls(k) ==
    {d \in OptionDecls(k) :
        d.name = "count" /\ d.required = None /\ d.choices = <<>>}

OptionDecls(k) ==
    [name : OptionNames,
     description : {"how many"},
     required : {None, Some(TRUE)},
     type : OptionTypes,
     options : IF k = 0 THEN {<<>>}
               ELSE {<<>>} \cup {<<c>> : c \in ChildDecls(k - 1)}
                           \cup {<<c, d>> : c \in ChildDecls(0), d \in ChildDecls(0)},
     choices : ChoiceLists]

\* {name: "count", type: INTEGER, required: true}
CountOption ==
    [name |-> "count", description |-> "how many", required |-> Some(TRUE),
     type |-> Some(4), options |-> <<>>, choices |-> <<>>]

\* ------------------------------------------------------------ value entities
\* an object: its class and the values of its slots
Instance(cls, fields) == [cls |-> cls, obj |-> fields]
IsInstance(x, cls) == x.cls = cls
InstanceOf(cls, r) ==
    IF r.err # "None" THEN r ELSE Built(Instance(cls, r.val[1]))

\* the classes that declare __slots__ and derive from object alone: their
\* instances have no __dict__
Slotted ==
    {"BaseCommand", "BaseOption", "BaseChoice", "BasePermission",
     "BaseGuildPermission"}
HasDict(x) == x.cls \notin Slotted

\* a keyword argument, or the default of the parameter when it is not passed
Get(kw, key, default) == IF key \in DOMAIN kw THEN kw[key] ELSE default

\* BaseCommand.__init__(**kw)
BaseCommand(kw) ==
    LET options == Get(kw, "options", <<>>)
        kids == IF IsNotNewList(options)
                THEN [i \in 1..Len(options) |-> BaseOption(options[i])]
                ELSE <<>>
        bad == {i \in 1..Len(kids) : kids[i].err # "None"}
    IN  IF bad # {}
        THEN kids[CHOOSE i \in bad : \A j \in bad : i <= j]
        ELSE Built([name |-> kw.name,
                    description |-> kw.description,
                    default_permission |-> Get(kw, "default_permission", TRUE),
                    id |-> Get(kw, "id", None),
                    application_id |-> Get(kw, "application_id", None),
                    version |-> Get(kw, "version", None),
                    options |-> [i \in 1..Len(kids) |->
                                    Instance("BaseOption", kids[i].val[1])]])

\* BasePermission.__init__
BasePermission(kw) == Built([id |-> kw.id, type |-> kw.type, state |-> kw.state])

\* BaseGuildPermission.__init__(**kw): every entry of `permissions` is passed
\* to BaseGuildPermission again, which takes id, guild_id and permissions only
RECURSIVE BaseGuildPermission(_)
BaseGuildPermission(kw) ==
    IF DOMAIN kw # {"id", "guild_id", "permissions"}
    THEN Raised("TypeError", "None")
    ELSE
    LET kids == [i \in 1..Len(kw.permissions) |->
                    BaseGuildPermission(kw.permissions[i])]
        bad == {i \in 1..Len(kids) : kids[i].err # "None"}
    IN  IF bad # {}
        THEN kids[CHOOSE i \in bad : \A j \in bad : i <= j]
        ELSE Built([id |-> kw.id,
                    guild_id |-> kw.guild_id,
                    permissions |-> [i \in 1..Len(kids) |->
                                        Instance("BaseGuildPermission",
                                                 kids[i].val[1])]])

\* a constructor call cls(**kw)
New(call) ==
    CASE call.cls = "BaseCommand" -> InstanceOf("BaseCommand", BaseCommand(call.kw))
      [] call.cls = "BaseOption" -> InstanceOf("BaseOption", BaseOption(call.kw))
      [] call.cls = "BaseChoice" -> Built(Instance("BaseChoice", BaseChoice(call.kw)))
      [] call.cls = "BasePermission" ->
             InstanceOf("BasePermission", BasePermission(call.kw))
      [] call.cls = "BaseGuildPermission" ->
             InstanceOf("BaseGuildPermission", BaseGuildPermission(call.kw))

\* ------------------------------------------------------------------ __eq__
\* the result of `x == y`: "True", "False", or the kind of the error raised
Bool(b) == IF b THEN "True" ELSE "False"

RECURSIVE Eq(_, _, _)
RECURSIVE ListEq(_, _, _)
\* list == list: the lengths first, then the elements pairwise up to the first
\* pair that is not equal; an element is equal to itself without a call of its
\* __eq__. `same`: the two lists are one object.
ListEq(a, b, same) ==
    IF Len(a) # Len(b) THEN "False"
    ELSE IF a = <<>> THEN "True"
    ELSE LET r == IF same THEN "True" ELSE Eq(Head(a), Head(b), FALSE)
         IN  IF r = "True" THEN ListEq(Tail(a), Tail(b), same) ELSE r

\* mutant: the identity fields are compared too
BaseCommandEq_WithId(self, other, same) ==
    IF ~IsInstance(other, "BaseCommand") THEN "False"
    ELSE IF self.obj.name # other.obj.name THEN "False"
    ELSE IF self.obj.description # other.obj.description THEN "False"
    ELSE IF self.obj.id # other.obj.id THEN "False"
    ELSE LET r == ListEq(self.obj.options, other.obj.options, same)
         IN  IF r # "True" THEN r
             ELSE Bool(self.obj.default_permission = other.obj.default_permission)

\* BaseCommand.__eq__
BaseCommandEq(self, other, same) ==
    IF ~IsInstance(other, "BaseCommand") THEN "False"
    ELSE IF self.obj.name # other.obj.name THEN "False"
    ELSE IF self.obj.description # other.obj.description THEN "False"
    ELSE LET r == ListEq(self.obj.options, other.obj.options, same)
         IN  IF r # "True" THEN r
             ELSE Bool(self.obj.default_permission = other.obj.default_permission)

\* `isinstance(other, cls) and self.__dict__ == other.__dict__`
DictEq(self, other, cls) ==
    IF ~IsInstance(other, cls) THEN "False"
    ELSE IF ~HasDict(self) \/ ~HasDict(other) THEN "AttributeError"
    ELSE Bool(self.obj = other.obj)

\* BaseOption.__eq__
BaseOptionEq(self, other, same) == DictEq(self, other, "BaseOption")

\* mutant: `self.__dict__ == other.__dict__ and isinstance(other, BaseChoice)`
BaseChoiceEq_DictFirst(self, other, same) ==
    IF ~HasDict(self) \/ ~HasDict(other) THEN "AttributeError"
    ELSE Bool(self.obj = other.obj /\ IsInstance(other, "BaseChoice"))

\* BaseChoice.__eq__
BaseChoiceEq(self, other, same) == DictEq(self, other, "BaseChoice")

\* BasePermission.__eq__: the second comparison is of self._type with other.id
BasePermissionEq(self, other, same) ==
    IF ~IsInstance(other, "BasePermission") THEN "False"
    ELSE Bool(/\ self.obj.id = other.obj.id
              /\ self.obj.type = other.obj.id
              /\ self.obj.state = other.obj.state)

\* BaseGuildPermission.__eq__
BaseGuildPermissionEq(self, other, same) ==
    IF ~IsInstance(other, "BaseGuildPermission") THEN "False"
    ELSE IF self.obj.id # other.obj.id THEN "False"
    ELSE IF self.obj.guild_id # other.obj.guild_id THEN "False"
    ELSE ListEq(self.obj.permissions, other.obj.permissions, same)

\* x == y calls type(x).__eq__(x, y); none of the five returns NotImplemented
Eq(x, y, same) ==
    CASE x.cls = "BaseCommand" -> BaseCommandEq(x, y, same)
      [] x.cls = "BaseOption" -> BaseOptionEq(x, y, same)
      [] x.cls = "BaseChoice" -> BaseChoiceEq(x, y, same)
      [] x.cls = "BasePermission" -> BasePermissionEq(x, y, same)
      [] x.cls = "BaseGuildPermission" -> BaseGuildPermissionEq(x, y, same)

\* ------------------------------------------------------------------ Command
\* str.lower() on the names used here
Lower(s) ==
    CASE s = "Ping" -> "ping"
      [] s = "Base" -> "base"
      [] s = "Sub" -> "sub"
      [] s = "Group" -> "group"
      [] OTHER -> s

\* object.__init__(self, *args), reached from a class that defines __init__:
\* any argument besides self is refused
ObjectInit(args) == IF Len(args) = 0 THEN "None" ELSE "TypeError"

\* isinstance(x, classinfo) accepts a type (or a tuple of types) as classinfo
IsType(classinfo) == classinfo # None

\* Command.__slots__
CommandSlots ==
    {"_type", "base", "group", "name", "description", "base_description",
     "group_description", "guild_ids", "options", "connector", "permissions",
     "default_permission", "has_description", "has_options", "has_subcommands",
     "has_permissions", "has_group", "cog"}

\* bool(x) of an Optional[str]: None and "" are falsy
TruthyStr(x) == x # None /\ x[1] # ""

\* Command.__init__(name, command, _type, sub, base, group); a list or mapping
\* of the bundle is a sequence, and None in its place is the empty sequence
\* (`command[...] or []` gives the same for both)
Command(a) ==
    IF ObjectInit(<<a.command.func>>) # "None" THEN Raised("TypeError", "None")
    ELSE IF ~IsType(None) THEN Raised("TypeError", "None")
    ELSE IF "sub" \notin CommandSlots THEN Raised("AttributeError", "None")
    ELSE
    LET lowered(x) == IF x = None THEN None ELSE Some(Lower(x[1]))
        c == a.command
    IN  Built([base |-> lowered(a.base),
               sub |-> lowered(a.sub),
               group |-> lowered(a.group),
               name |-> Lower(a.name),
               description |-> c.description,
               base_description |-> c.base_desc,
               group_description |-> c.sub_group_desc,
               options |-> c.api_options,
               permissions |-> c.api_permissions,
               default_permission |-> c.default_permission,
               has_description |-> \/ TruthyStr(c.description)
                                   \/ TruthyStr(c.base_desc)
                                   \/ TruthyStr(c.sub_group_desc),
               has_options |-> c.api_options # <<>>,
               has_subcommands |-> c.has_subcommands,
               has_permissions |-> c.api_permissions # <<>>,
               has_group |-> TruthyStr(lowered(a.group))])

\* ------------------------------------------------- inputs of the value entities
\* two leaf declarations that differ in name only
OptionA == [CountOption EXCEPT !.required = None]
OptionB == [OptionA EXCEPT !.name = "name"]
\* the declaration A with another `type` (a string option) and nothing else changed
OptionAText == [OptionA EXCEPT !.type = Some(3)]

\* id, application_id and version as a command carries them before and after
\* it is registered
Identities ==
    {[id |-> None, application_id |-> None, version |-> None],
     [id |-> Some(1), application_id |-> Some(9), version |-> Some("v1")],
     [id |-> Some(2), application_id |-> Some(9), version |-> Some("v2")]}

CommandDecls ==
    {[name |-> n, description |-> d, options |-> o, default_permission |-> p,
      id |-> i.id, application_id |-> i.application_id, version |-> i.version] :
        n \in {"ping", "one"}, d \in {"replies", "how many"},
        o \in {<<>>, <<OptionA, OptionB>>, <<OptionB, OptionA>>},
        p \in BOOLEAN, i \in Identities}

ChoiceDecls == [name : {"one", "two"}, value : {1, 2}]

\* type: ROLE is 1 and USER is 2
PermissionDecls == [id : {1, 2}, type : {1, 2}, state : BOOLEAN]

\* an entry of `permissions`: a guild permission set without entries, or a
\* permission override as the registry returns it
PermissionEntries ==
    {[id |-> 1, guild_id |-> 10, permissions |-> <<>>],
     [id |-> 2, guild_id |-> 10, permissions |-> <<>>],
     [id |-> 1, type |-> 1, permission |-> TRUE],
     [id |-> 1, type |-> 1, state |-> TRUE],
     [id |-> 2, type |-> 2, state |-> FALSE]}

GuildPermissionDecls ==
    [id : {1, 2}, guild_id : {10},
     permissions : {<<>>} \cup {<<e>> : e \in PermissionEntries}
                          \cup {p \in PermissionEntries \X PermissionEntries :
                                    p[1] # p[2]}]

Calls ==
    {[cls |-> "BaseCommand", kw |-> k] : k \in CommandDecls}
    \cup {[cls |-> "BaseOption", kw |-> k] : k \in {OptionA, OptionB, OptionAText}}
    \cup {[cls |-> "BaseChoice", kw |-> k] : k \in ChoiceDecls}
    \cup {[cls |-> "BasePermission", kw |-> k] : k \in PermissionDecls}
    \cup {[cls |-> "BaseGuildPermission", kw |-> k] : k \in GuildPermissionDecls}

\* x == y for two constructor calls x and y, or (alias) x == x for one object
EqInputs ==
    {[left |-> x, right |-> y, alias |-> FALSE] : x \in Calls, y \in Calls}
    \cup {[left |-> x, right |-> x, alias |-> TRUE] : x \in Calls}

NotCompared ==
    [err |-> "pending", l |-> None, r |-> None, lr |-> "None", rl |-> "None"]

\* the declaration bundle and the names given to Command(...)
Bundles ==
    [func : {"func"},
     description : {None, Some(""), Some("replies")},
     base_desc : {None, Some("base help")},
     sub_group_desc : {None, Some("group help")},
     api_options : {<<>>, <<OptionA>>},
     api_permissions : {<<>>, <<[id |-> 1, type |-> 1, permission |-> TRUE]>>},
     default_permission : {TRUE},
     has_subcommands : BOOLEAN]

CommandArgs ==
    [name : {"Ping", "ping"},
     command : Bundles,
     base : {None, Some("Base")},
     sub : {None, Some("Sub")},
     group : {None, Some("Group")}]

PingCommand == CHOOSE k \in CommandDecls : k.name = "ping" /\ k.options = <<>>
PingArgs == CHOOSE a \in CommandArgs : a.name = "Ping" /\ a.base = None

\* the value-entity variables while no operation on them is under way
RestOption == optIn = CountOption /\ optOut = NotBuilt
RestEq ==
    /\ eqIn = [left |-> [cls |-> "BaseCommand", kw |-> PingCommand],
               right |-> [cls |-> "BaseCommand", kw |-> PingCommand],
               alias |-> FALSE]
    /\ eqOut = NotCompared
RestRoundTrip == rtIn = PingCommand /\ rtOut = NotBuilt
RestCommand == cmdIn = PingArgs /\ cmdOut = NotBuilt
RestPayload == payIn = [impl |-> "none"] /\ payOut = NotBuilt

\* Message.__init__: the token and id are stored once
InitMessage ==
    /\ \E m \in Messages : token = m.interaction_token /\ msgId = m.id
    /\ pc = "idle"
    /\ calls = <<>>
    /\ tasks = <<>>
    /\ log = {}
    /\ nEdits = 0
    /\ edit = NoEdit

Init ==
    /\ InitMessage
    /\ RestOption
    /\ RestEq
    /\ RestRoundTrip
    /\ RestCommand
    /\ RestPayload

Range(seq) == {seq[i] : i \in 1..Len(seq)}

\* ------------------------------------------------- requests to the transport
\* the requests already made for call c by `who` (the caller or the task)
Made(lg, c, who) == {e \in lg : e.call = c /\ e.by = who}

\* the request of super().delete(delay=delay), the standard channel-scoped
\* delete of the message, made after the base has slept for sl
ChannelRequest(c, sl) ==
    [surface |-> "channel", by |-> "caller", call |-> c, n |-> 1, tok |-> None,
     id |-> msgId, slept |-> sl, res |-> "pending"]

\* mutant: the request carries a token given later, not the one stored
InteractionRequest_OtherToken(c, who, sl, lg) ==
    [surface |-> "interaction", by |-> who, call |-> c,
     n |-> Cardinality(Made(lg, c, who)) + 1, tok |-> Some("tokLater"),
     id |-> msgId, slept |-> sl, res |-> "pending"]

\* self._http.delete(self.__interaction_token, self.id)
InteractionRequest(c, who, sl, lg) ==
    [surface |-> "interaction", by |-> who, call |-> c,
     n |-> Cardinality(Made(lg, c, who)) + 1, tok |-> Some(token),
     id |-> msgId, slept |-> sl, res |-> "pending"]

\* the request `who` is suspended on, for call c
Pending(c, who) ==
    CHOOSE e \in log : e.call = c /\ e.by = who /\ e.res = "pending"

Answered(c, who, r) ==
    (log \ {Pending(c, who)}) \cup {[Pending(c, who) EXCEPT !.res = r]}

\* ------------------------------------------------------------ Message.delete
\* the application has calls left in this behaviour
Budget ==
    nEdits + Cardinality({c \in 1..Len(calls) : ~calls[c].viaEdit}) < MaxCalls

NewCall(d, fromEdit) ==
    [delay |-> d, viaEdit |-> fromEdit, waited |-> 0, outcome |-> "running"]

\* super().delete(delay=d) is called for call c: with a delay the base defers
\* the whole delete and sleeps first, with none it makes its request at once
SuperDeleteCalled(c, d) ==
    IF Truthy(d)
    THEN log' = log /\ pc' = "wait"
    ELSE log' = log \cup {ChannelRequest(c, 0)} /\ pc' = "chan"

\* delete is entered and suspends on super().delete(delay=delay)
EnterDelete(d, fromEdit) ==
    /\ calls' = Append(calls, NewCall(d, fromEdit))
    /\ SuperDeleteCalled(Len(calls) + 1, d)

\* `[[file.close() for file in files] if files else None]`
CloseFiles(e) == [e EXCEPT !.st = "returned", !.closed = Range(e.files)]

\* delete call c ends with `out` ("returned" or the error raised); when it was
\* awaited by _slash_edit, the edit resumes (closing its files) or raises too
Leave(c, out) ==
    /\ calls' = [calls EXCEPT ![c].outcome = out]
    /\ pc' = "idle"
    /\ edit' = IF ~calls[c].viaEdit THEN edit
               ELSE IF out = "returned" THEN CloseFiles(edit)
               ELSE [edit EXCEPT !.st = "raised", !.err = out]

\* mutant: `except Exception:`
Caught_Any(r) == r # "ok"

\* mutant: `except HTTPException:` with Forbidden handled nowhere
Caught_OtherError(r) == r = "OtherError"

\* `except Forbidden:`
Caught(r) == r = "Forbidden"

\* `if not delay: return await self._http.delete(token, id)`
ImmediateFallback(c, lg) ==
    /\ log' = lg \cup {InteractionRequest(c, "caller", 0, lg)}
    /\ pc' = "fallback"
    /\ UNCHANGED <<calls, tasks, edit>>

\* the message is gone once some deletion request was answered with success
Gone(lg) == \E e \in lg : e.res = "ok"

\* wrap(): the coroutine object, with what was true when it was created
NewTask(c, lg) ==
    [call |-> c, delay |-> calls[c].delay[1], st |-> "created", elapsed |-> 0,
     editsAt |-> nEdits, goneAt |-> Gone(lg)]

\* mutant: create_task replaced by `await wrap()`, delete waits for the task
ScheduleWrap_Awaited(c, lg) ==
    /\ log' = lg
    /\ tasks' = Append(tasks, NewTask(c, lg))
    /\ pc' = "join"
    /\ UNCHANGED <<calls, edit>>

\* `self._state.loop.create_task(wrap())`, after which delete returns
ScheduleWrap(c, lg) ==
    /\ log' = lg
    /\ tasks' = Append(tasks, NewTask(c, lg))
    /\ Leave(c, "returned")

\* mutant: the fallback request is forgotten when there is no delay
DeleteOnForbidden_NoFallback(c, lg) ==
    IF ~Truthy(calls[c].delay)
    THEN log' = lg /\ Leave(c, "returned") /\ UNCHANGED tasks
    ELSE ScheduleWrap(c, lg)

\* mutant: the fallback is always immediate, whatever the delay
DeleteOnForbidden_Immediate(c, lg) == ImmediateFallback(c, lg)

\* the body of `except Forbidden:`
DeleteOnForbidden(c, lg) ==
    IF ~Truthy(calls[c].delay) THEN ImmediateFallback(c, lg)
    ELSE ScheduleWrap(c, lg)

\* a call of Message.delete by the application
Delete(d) ==
    /\ pc = "idle"
    /\ Budget
    /\ EnterDelete(d, FALSE)
    /\ UNCHANGED <<values, token, msgId, tasks, nEdits, edit>>

\* the transport answers the channel-scoped delete
ChanResponse(r) ==
    /\ pc = "chan"
    /\ LET c == Len(calls)
           lg == Answered(c, "caller", r)
       IN  IF r = "ok" THEN log' = lg /\ Leave(c, "returned") /\ UNCHANGED tasks
           ELSE IF Caught(r) THEN DeleteOnForbidden(c, lg)
           ELSE log' = lg /\ Leave(c, r) /\ UNCHANGED tasks
    /\ UNCHANGED <<values, token, msgId, nEdits>>

\* mutant: the fallback request is wrapped in suppress(Forbidden) too
FallbackOutcome_Suppress(r) == IF r = "OtherError" THEN r ELSE "returned"

\* what the awaited fallback request leaves delete with
FallbackOutcome(r) == IF r = "ok" THEN "returned" ELSE r

\* the transport answers the immediate interaction-token delete
FallbackResponse(r) ==
    /\ pc = "fallback"
    /\ LET c == Len(calls)
       IN  log' = Answered(c, "caller", r) /\ Leave(c, FallbackOutcome(r))
    /\ UNCHANGED <<values, token, msgId, tasks, nEdits>>

\* ------------------------------------------------------------- wrap() tasks
\* the event loop first runs the task: it suspends on sleep(delay)
TaskStart(i) ==
    /\ tasks[i].st = "created"
    /\ tasks' = [tasks EXCEPT ![i].st = "sleeping"]
    /\ UNCHANGED <<values, token, msgId, pc, calls, log, nEdits, edit>>

\* super().delete(delay=delay) is in its sleep and the delay has not elapsed
SuperSleeping ==
    /\ pc = "wait"
    /\ calls[Len(calls)].waited < calls[Len(calls)].delay[1]

\* one unit of time passes for every sleeping task and for a delete whose
\* base is in its sleep
Tick ==
    /\ \/ SuperSleeping
       \/ \E i \in 1..Len(tasks) :
              tasks[i].st = "sleeping" /\ tasks[i].elapsed < tasks[i].delay
    /\ tasks' = [i \in 1..Len(tasks) |->
                    IF tasks[i].st = "sleeping" /\ tasks[i].elapsed < tasks[i].delay
                    THEN [tasks[i] EXCEPT !.elapsed = @ + 1]
                    ELSE tasks[i]]
    /\ calls' = IF SuperSleeping
                THEN [calls EXCEPT ![Len(calls)].waited = @ + 1]
                ELSE calls
    /\ UNCHANGED <<values, token, msgId, pc, log, nEdits, edit>>

\* mutant: the request is made before the sleep
SleepElapsed_NoWait(t) == TRUE

\* `await sleep(delay)` has completed
SleepElapsed(t) == t.elapsed >= t.delay

\* super().delete(delay=delay) with a delay: once the delay has elapsed the
\* channel-scoped request is made and delete is suspended on its answer
SuperDelete ==
    /\ pc = "wait"
    /\ LET c == Len(calls)
       IN  /\ SleepElapsed([elapsed |-> calls[c].waited, delay |-> calls[c].delay[1]])
           /\ log' = log \cup {ChannelRequest(c, calls[c].waited)}
    /\ pc' = "chan"
    /\ UNCHANGED <<values, token, msgId, calls, tasks, nEdits, edit>>

\* the task wakes and suspends on self._http.delete(token, id)
TaskWake(i) ==
    /\ tasks[i].st = "sleeping"
    /\ SleepElapsed(tasks[i])
    /\ log' = log \cup {InteractionRequest(tasks[i].call, "task", tasks[i].elapsed, log)}
    /\ tasks' = [tasks EXCEPT ![i].st = "deleting"]
    /\ UNCHANGED <<values, token, msgId, pc, calls, nEdits, edit>>

\* mutant: a Forbidden answer makes the task try again
WrapAfter_Retry(r) ==
    CASE r = "ok" -> "done"
      [] r = "Forbidden" -> "sleeping"
      [] OTHER -> "failed"

\* `with suppress(Forbidden):` around the request
WrapAfter(r) ==
    CASE r = "ok" -> "done"
      [] r = "Forbidden" -> "suppressed"
      [] OTHER -> "failed"

\* the transport answers the deferred interaction-token delete
TaskResponse(i, r) ==
    /\ tasks[i].st = "deleting"
    /\ log' = Answered(tasks[i].call, "task", r)
    /\ tasks' = [tasks EXCEPT ![i].st = WrapAfter(r)]
    /\ UNCHANGED <<values, token, msgId, pc, calls, nEdits, edit>>

\* ------------------------------------------------------- Message._slash_edit
EmbedsLimit == 10

\* embeds: None, or a list / a tuple of embeds (only the list passes isinstance)
EmbedsInputs ==
    {[kind |-> "list", items |-> [i \in 1..n |-> "E"]] :
        n \in {EmbedsLimit, EmbedsLimit + 1}}
    \cup {[kind |-> "tuple", items |-> <<"E">>], [kind |-> "None", items |-> <<>>]}

\* the keyword arguments of one edit; `keys` tells whether content, components,
\* embed, embeds, file and files are all among them
EditFields ==
    [keys : {TRUE},
     embeds : EmbedsInputs,
     file : {None, Some("f1")},
     files : {None, Some(<<"f1", "f2">>)},
     allowed_mentions : {None, Some("given")},
     delete_after : Delays]
    \cup
    {[keys |-> FALSE, embeds |-> [kind |-> "None", items |-> <<>>], file |-> None,
      files |-> None, allowed_mentions |-> None, delete_after |-> None]}

\* `files = [file] if file else files`, as a list of handles (None: no list)
LocalFiles(f) == IF f.file # None THEN Some(<<f.file[1]>>) ELSE f.files

\* `len(embeds) > 10`
TooManyEmbeds(items) == Len(items) > EmbedsLimit

\* `files is not None and file is not None`, after line 494
BothFiles(f) == LocalFiles(f) # None /\ f.file # None

\* the exception raised by lines 490-519 and the message it carries ("None"
\* when they complete); "FormatError" is InteractionException(INCORRECT_FORMAT)
SlashEditFailure(f, stateAM) ==
    IF f.embeds.kind = "None" THEN [err |-> "TypeError", msg |-> "None"]
    ELSE IF f.embeds.kind # "list"
    THEN [err |-> "FormatError", msg |-> "Provide a list of embeds."]
    ELSE IF TooManyEmbeds(f.embeds.items)
    THEN [err |-> "FormatError", msg |-> "Do not provide more than 10 embeds."]
    ELSE IF BothFiles(f)
    THEN [err |-> "FormatError",
          msg |-> "You can't use both file and files kwargs at the same time."]
    ELSE IF f.allowed_mentions = None THEN [err |-> "AttributeError", msg |-> "None"]
    ELSE IF stateAM = None THEN [err |-> "AttributeError", msg |-> "None"]
    ELSE [err |-> "None", msg |-> "None"]

SlashEditCheck(f, stateAM) == SlashEditFailure(f, stateAM).err

\* embed.to_dict()
ToDict(x) == [dict |-> x]

\* _response when lines 490-519 complete: components (None on the calls
\* modelled), embeds (lines 492-493, which read `embed` first) and
\* allowed_mentions, which by then can only be the {} of line 519; nothing
\* is sent
SlashEditResponse(f, stateAM) ==
    IF ~f.keys THEN Built([keys |-> {}])
    ELSE IF SlashEditFailure(f, stateAM).err # "None"
    THEN Raised(SlashEditFailure(f, stateAM).err, SlashEditFailure(f, stateAM).msg)
    ELSE Built([keys |-> {"components", "embeds", "allowed_mentions"},
                components |-> <<>>,
                embeds |-> IF f.embed = None THEN <<>>
                           ELSE [i \in 1..Len(f.embeds.items) |->
                                    ToDict(f.embeds.items[i])],
                allowed_mentions |-> [dict |-> "empty"]])

\* the handles of the local `files`
FilesOf(f) == IF LocalFiles(f) = None THEN <<>> ELSE LocalFiles(f)[1]

\* the handles of the local `files` when the call is left by a raise: the
\* TypeError of line 492 comes before line 494 has rebound it
FilesAtRaise(f) ==
    IF f.embeds.kind # "None" THEN FilesOf(f)
    ELSE IF f.files = None THEN <<>>
    ELSE f.files[1]

\* the statements of _slash_edit on the message
SlashEditRun(f, stateAM) ==
    /\ nEdits' = nEdits + 1
    /\ IF ~f.keys
       THEN \* `except KeyError: pass`
            /\ edit' = [st |-> "returned", err |-> "None", files |-> <<>>, closed |-> {}]
            /\ UNCHANGED <<pc, calls, log>>
       ELSE IF SlashEditCheck(f, stateAM) # "None"
       THEN /\ edit' = [st |-> "raised", err |-> SlashEditCheck(f, stateAM),
                        files |-> FilesAtRaise(f), closed |-> {}]
            /\ UNCHANGED <<pc, calls, log>>
       ELSE IF Truthy(f.delete_after)
       THEN \* `await self.delete(delay=delete_after)`
            /\ EnterDelete(f.delete_after, TRUE)
            /\ edit' = [st |-> "running", err |-> "None",
                        files |-> FilesOf(f), closed |-> {}]
       ELSE /\ edit' = CloseFiles([st |-> "running", err |-> "None",
                                   files |-> FilesOf(f), closed |-> {}])
            /\ UNCHANGED <<pc, calls, log>>

\* _slash_edit where its _response is not followed; it never touches the
\* scheduled tasks
SlashEditBody(f, stateAM) ==
    /\ SlashEditRun(f, stateAM)
    /\ UNCHANGED <<values, token, msgId>>

\* mutant: an edit cancels the deferred deletions that have not run yet
SlashEdit_Cancelling(f, stateAM) ==
    /\ SlashEditBody(f, stateAM)
    /\ tasks' = [i \in 1..Len(tasks) |->
                    IF tasks[i].st \in {"created", "sleeping"}
                    THEN [tasks[i] EXCEPT !.st = "cancelled"]
                    ELSE tasks[i]]

\* Message._slash_edit(**f), with self._state.allowed_mentions = stateAM
SlashEdit(f, stateAM) ==
    /\ SlashEditBody(f, stateAM)
    /\ UNCHANGED tasks

\* a call of Message._slash_edit by the application
Edit ==
    /\ pc = "idle"
    /\ Budget
    /\ \E f \in EditFields, sam \in StateMentions : SlashEdit(f, sam)

\* ------------------------------------------------------------ specification
Next ==
    \/ \E d \in Delays : Delete(d)
    \/ \E r \in Outcomes : ChanResponse(r)
    \/ \E r \in Outcomes : FallbackResponse(r)
    \/ \E i \in 1..Len(tasks) : TaskStart(i)
    \/ Tick
    \/ SuperDelete
    \/ \E i \in 1..Len(tasks) : TaskWake(i)
    \/ \E i \in 1..Len(tasks), r \in Outcomes : TaskResponse(i, r)
    \/ Edit

Spec == Init /\ [][Next]_vars

\* the construction of one option from its declaration
InitOption ==
    /\ InitMessage
    /\ optIn \in OptionDecls(MaxDepth)
    /\ optOut = NotBuilt
    /\ RestEq
    /\ RestRoundTrip
    /\ RestCommand
    /\ RestPayload

\* the variables of the Message, which no value entity touches
message == <<token, msgId, pc, calls, tasks, log, nEdits, edit>>

Construct ==
    /\ optOut = NotBuilt
    /\ optOut' = BaseOption(optIn)
    /\ UNCHANGED <<optIn, eqIn, eqOut, rtIn, rtOut, cmdIn, cmdOut, payIn, payOut, message>>

NextOption == Construct

SpecOption == InitOption /\ [][NextOption]_vars

\* ------------------------------------------------------ x == y and y == x
InitEq ==
    /\ InitMessage
    /\ RestOption
    /\ eqIn \in EqInputs
    /\ eqOut = NotCompared
    /\ RestRoundTrip
    /\ RestCommand
    /\ RestPayload

\* both entities are constructed, the left one first, and compared both ways
Compare ==
    /\ eqOut = NotCompared
    /\ eqOut' =
         LET l == New(eqIn.left)
             r == IF eqIn.alias THEN l ELSE New(eqIn.right)
         IN  IF l.err # "None" THEN [NotCompared EXCEPT !.err = l.err]
             ELSE IF r.err # "None" THEN [NotCompared EXCEPT !.err = r.err]
             ELSE [err |-> "None", l |-> l.val, r |-> r.val,
                   lr |-> Eq(l.val[1], r.val[1], eqIn.alias),
                   rl |-> Eq(r.val[1], l.val[1], eqIn.alias)]
    /\ UNCHANGED <<optIn, optOut, eqIn, rtIn, rtOut, cmdIn, cmdOut, payIn, payOut, message>>

NextEq == Compare

SpecEq == InitEq /\ [][NextEq]_vars

\* ------------------------------------------- the registration payload and back
RECURSIVE OptionPayload(_)
\* an option of the tree as {name, description, type, required, options, choices}
OptionPayload(o) ==
    [name |-> o.name, description |-> o.description, type |-> o.type,
     required |-> o.required,
     options |-> [i \in 1..Len(o.options) |-> OptionPayload(o.options[i])],
     choices |-> o.choices]

\* a command tree as {name, description, options, default_permission}
Serialize(tree) ==
    [name |-> tree.name, description |-> tree.description,
     options |-> [i \in 1..Len(tree.options) |-> OptionPayload(tree.options[i])],
     default_permission |-> tree.default_permission]

InitRoundTrip ==
    /\ InitMessage
    /\ RestOption
    /\ RestEq
    /\ rtIn \in CommandDecls
    /\ rtOut = NotBuilt
    /\ RestCommand
    /\ RestPayload

\* the payload of the tree is parsed: BaseCommand(**payload)
RoundTrip ==
    /\ rtOut = NotBuilt
    /\ rtOut' = BaseCommand(Serialize(rtIn))
    /\ UNCHANGED <<optIn, optOut, eqIn, eqOut, rtIn, cmdIn, cmdOut, payIn, payOut, message>>

NextRoundTrip == RoundTrip

SpecRoundTrip == InitRoundTrip /\ [][NextRoundTrip]_vars

\* ------------------------------------------------ construction of a Command
InitCommand ==
    /\ InitMessage
    /\ RestOption
    /\ RestEq
    /\ RestRoundTrip
    /\ cmdIn \in CommandArgs
    /\ cmdOut = NotBuilt
    /\ RestPayload

CommandInit ==
    /\ cmdOut = NotBuilt
    /\ cmdOut' = Command(cmdIn)
    /\ UNCHANGED <<optIn, optOut, eqIn, eqOut, rtIn, rtOut, cmdIn, payIn, payOut, message>>

NextCommand == CommandInit

SpecCommand == InitCommand /\ [][NextCommand]_vars

\* ------------------------------------- interactions Message.edit: the payload
\* a Python value as [kind, items]: the sentinel MISSING, None, a list, or one
\* object / scalar held in items
Py(kind, items) == [kind |-> kind, items |-> items]
MISSING == Py("MISSING", <<>>)
PyNone == Py("None", <<>>)
List(items) == Py("list", items)

\* `if x`: None, [] and False are falsy; MISSING is a class, hence truthy
PyTruthy(x) ==
    CASE x.kind = "None" -> FALSE
      [] x.kind = "list" -> x.items # <<>>
      [] x.kind = "bool" -> x.items = <<"True">>
      [] OTHER -> TRUE

\* x._json
Json(x) == [json |-> x]

\* [a._json for a in xs]
JsonAll(xs) == [i \in 1..Len(xs) |-> Json(xs[i])]

\* file._json_payload(id)
JsonPayload(file, id) == [payload |-> file, id |-> id]

\* _build_components(components=c)
BuildComponents(c) == [built |-> TRUE, of |-> c]

\* lines 922-926: _flags, the flags being a set of bits
EditFlags(flags, suppress_embeds) ==
    IF suppress_embeds # MISSING /\ PyTruthy(suppress_embeds)
    THEN flags \cup {"SUPPRESS_EMBEDS"}
    ELSE IF suppress_embeds # MISSING THEN flags \ {"SUPPRESS_EMBEDS"}
    ELSE flags

\* line 930
EditContent(stored, content) == IF content = MISSING THEN stored ELSE content

\* line 931
EditTts(stored, tts) == IF tts = MISSING THEN Py("bool", <<"False">>) ELSE tts

\* lines 933-938: iterating a stored None is a TypeError
EditAttachments(stored, attachments) ==
    IF attachments = MISSING
    THEN IF stored.kind = "list" THEN Built(JsonAll(stored.items))
         ELSE Raised("TypeError", "None")
    ELSE IF ~PyTruthy(attachments) THEN Built(<<>>)
    ELSE Built(JsonAll(attachments.items))

\* lines 940-946: _files
EditFilesPayload(files) ==
    IF ~PyTruthy(files) \/ files = MISSING THEN <<>>
    ELSE IF files.kind = "list"
    THEN [i \in 1..Len(files.items) |-> JsonPayload(files.items[i], i - 1)]
    ELSE <<JsonPayload(files.items[1], 0)>>

\* lines 940-946: the `files` handed to the client (rebound on line 946)
EditFilesSent(files) ==
    IF ~PyTruthy(files) \/ files = MISSING THEN files
    ELSE IF files.kind = "list" THEN files
    ELSE List(files.items)

\* mutant: omitted embeds are sent as an empty list
EditEmbeds_Cleared(stored, embeds) ==
    IF embeds = MISSING THEN <<>>
    ELSE IF ~PyTruthy(embeds) THEN <<>>
    ELSE JsonAll(embeds.items)

\* lines 950-956: _embeds
EditEmbeds(stored, embeds) ==
    LET e == IF embeds = MISSING THEN stored ELSE embeds
    IN  IF ~PyTruthy(e) THEN <<>>
        ELSE IF e.kind = "list" THEN JsonAll(e.items)
        ELSE <<Json(e.items[1])>>

\* lines 958-964: _allowed_mentions
EditAllowedMentions(allowed_mentions) ==
    IF allowed_mentions = MISSING THEN Py("dict", <<>>)
    ELSE IF allowed_mentions.kind = "AllowedMentions"
    THEN Py("dict", <<Json(allowed_mentions.items[1])>>)
    ELSE allowed_mentions

\* line 965: _message_reference
\* (None has no _json: AttributeError)
EditMessageReference(message_reference) ==
    IF message_reference = MISSING THEN Built(Py("dict", <<>>))
    ELSE IF message_reference.kind = "None" THEN Raised("AttributeError", "None")
    ELSE Built(Py("dict", <<Json(message_reference.items[1])>>))

\* lines 966-971: _components
EditComponents(stored, components) ==
    IF ~PyTruthy(components) THEN [built |-> FALSE, of |-> List(<<>>)]
    ELSE IF components = MISSING THEN BuildComponents(stored)
    ELSE BuildComponents(components)

\* a request handed to self._client, awaited by the method that made it;
\* where the method passes no message_id, files or payload, they are None,
\* MISSING and None
Awaiting(endpoint, channel_id, message_id, files, payload) ==
    Built([sent |-> TRUE, st |-> "awaiting", returns |-> "pending", made |-> None,
           endpoint |-> endpoint, channel_id |-> channel_id,
           message_id |-> message_id, files |-> files, payload |-> payload])

\* a method that returns `value` without a request
Returned(value) ==
    Built([sent |-> FALSE, st |-> "returned", returns |-> value, made |-> None])

\* Message.edit(**a) on the message m, up to its await: the exception it
\* raises, or the request it hands to self._client.edit_message
MessageEdit(m, a) ==
    IF ~m.client THEN Raised("LibraryException", "13")
    ELSE IF m.flags = {"64"} THEN Raised("LibraryException", "12")
    ELSE IF EditAttachments(m.attachments, a.attachments).err # "None"
    THEN EditAttachments(m.attachments, a.attachments)
    ELSE IF EditMessageReference(a.message_reference).err # "None"
    THEN EditMessageReference(a.message_reference)
    ELSE Awaiting("edit_message", m.channel_id, Some(m.id), EditFilesSent(a.files),
                  [content |-> EditContent(m.content, a.content),
                   tts |-> EditTts(m.tts, a.tts),
                   attachments |-> EditFilesPayload(a.files)
                       \o EditAttachments(m.attachments, a.attachments).val[1],
                   embeds |-> EditEmbeds(m.embeds, a.embeds),
                   allowed_mentions |-> EditAllowedMentions(a.allowed_mentions),
                   message_reference |->
                       EditMessageReference(a.message_reference).val[1],
                   components |-> EditComponents(m.components, a.components),
                   flags |-> EditFlags(m.flags, a.suppress_embeds)])

\* Message.delete(reason), up to its await
MessageDelete(m, a) ==
    IF ~m.client THEN Raised("LibraryException", "13")
    ELSE Awaiting("delete_message", m.channel_id, Some(m.id), MISSING,
                  [reason |-> a.reason])

\* Message.pin(), up to its await
MessagePin(m) ==
    IF ~m.client THEN Raised("LibraryException", "13")
    ELSE Awaiting("pin_message", m.channel_id, Some(m.id), MISSING, PyNone)

\* Message.publish(), up to its await
MessagePublish(m) ==
    IF ~m.client THEN Raised("LibraryException", "13")
    ELSE Awaiting("publish_message", m.channel_id, Some(m.id), MISSING, PyNone)

\* lines 1046-1050 of reply: _embeds
ReplyEmbeds(embeds) ==
    IF ~PyTruthy(embeds) \/ embeds = MISSING THEN <<>>
    ELSE IF embeds.kind = "list" THEN JsonAll(embeds.items)
    ELSE <<Json(embeds.items[1])>>

\* line 1059 of reply: _attachments; iterating None is a TypeError
ReplyAttachments(attachments) ==
    IF attachments = MISSING THEN Built(<<>>)
    ELSE IF attachments.kind = "list" THEN Built(JsonAll(attachments.items))
    ELSE Raised("TypeError", "None")

\* lines 1060-1063 of reply: _components
ReplyComponents(components) ==
    IF ~PyTruthy(components) \/ components = MISSING
    THEN [built |-> FALSE, of |-> List(<<>>)]
    ELSE BuildComponents(components)

\* lines 1074-1076 of reply: _sticker_ids
\* (the ids are the stickers' names; iterating None is a TypeError)
ReplyStickerIds(stickers) ==
    IF stickers = MISSING THEN Built(<<>>)
    ELSE IF stickers.kind = "list" THEN Built(stickers.items)
    ELSE Raised("TypeError", "None")

\* Message.reply(**a) on the message m, up to its await
MessageReply(m, a) ==
    IF ~m.client THEN Raised("LibraryException", "13")
    ELSE IF ReplyAttachments(a.attachments).err # "None"
    THEN ReplyAttachments(a.attachments)
    ELSE IF ReplyStickerIds(a.stickers).err # "None"
    THEN ReplyStickerIds(a.stickers)
    ELSE Awaiting("create_message", m.channel_id, None, EditFilesSent(a.files),
                  [content |-> IF a.content = MISSING THEN Py("str", <<"">>)
                               ELSE a.content,
                   tts |-> EditTts(m.tts, a.tts),
                   attachments |-> EditFilesPayload(a.files)
                       \o ReplyAttachments(a.attachments).val[1],
                   embeds |-> ReplyEmbeds(a.embeds),
                   message_reference |-> Py("dict", <<Json(m.id)>>),
                   allowed_mentions |-> EditAllowedMentions(a.allowed_mentions),
                   components |-> ReplyComponents(a.components),
                   sticker_ids |-> ReplyStickerIds(a.stickers).val[1]])

\* a row of components and whether its components are disabled
Row(name) == [row |-> name, disabled |-> FALSE]

\* lines 1373-1375: component.disabled = True on every stored component
DisableAll(components) ==
    IF ~PyTruthy(components) THEN components
    ELSE List([i \in 1..Len(components.items) |->
                  [components.items[i] EXCEPT !.disabled = TRUE]])

\* Message.disable_all_components() on the message m, up to its await
MessageDisableAllComponents(m) ==
    IF ~m.client THEN Raised("LibraryException", "13")
    ELSE IF ~PyTruthy(m.components) THEN Returned("self")
    ELSE Awaiting("edit_message", m.channel_id, Some(m.id), MISSING,
                  [components |-> JsonAll(DisableAll(m.components).items)])

\* the method `op` of the message m called with the arguments a
MessageCall(op, m, a) ==
    CASE op = "edit" -> MessageEdit(m, a)
      [] op = "delete" -> MessageDelete(m, a)
      [] op = "pin" -> MessagePin(m)
      [] op = "publish" -> MessagePublish(m)
      [] op = "reply" -> MessageReply(m, a)
      [] op = "disable_all_components" -> MessageDisableAllComponents(m)

\* the objects a list of descriptors is converted to
FromJson(xs) ==
    [i \in 1..Len(xs) |->
        IF "json" \in DOMAIN xs[i] THEN xs[i].json ELSE xs[i].payload]

\* updatedMessageData: the edited message as the platform returns it
EditedData(m, payload) ==
    [id |-> m.id, channel_id |-> m.channel_id,
     content |-> payload.content, tts |-> payload.tts,
     attachments |-> List(FromJson(payload.attachments)),
     embeds |-> List(FromJson(payload.embeds)),
     components |-> payload.components.of,
     flags |-> payload.flags]

\* the data of an answer that names the message only
PartialData(m) == [id |-> m.id, channel_id |-> m.channel_id]

\* newMessageData: the message created by a reply, with its author or, when
\* the answer is partial, without
CreatedData(kind, m, payload) ==
    IF kind = "data"
    THEN [id |-> "m2", channel_id |-> m.channel_id, content |-> payload.content,
          author |-> [id |-> Some("u1")]]
    ELSE [id |-> "m2", channel_id |-> m.channel_id]

\* self.update(_dct): the fields named in the data are overwritten
Update(m, dct) ==
    [k \in DOMAIN m |-> IF k \in DOMAIN dct THEN dct[k] ELSE m[k]]

\* what the client answers to an awaited request: an error, or data
AnswerKinds == {"Forbidden", "OtherError", "data", "partial"}

\* the data of the answer to the request req of the message m
AnswerData(kind, op, m, req) ==
    IF op = "reply" THEN CreatedData(kind, m, req.payload)
    ELSE IF kind = "data" /\ op = "edit" THEN EditedData(m, req.payload)
    ELSE PartialData(m)

\* lines 1093-1095 of reply: the author of the answer laid over
\* {"id": None, "username": None, "discriminator": None}
ReplyAuthor(author) ==
    [k \in {"id", "username", "discriminator"} \cup DOMAIN author |->
        IF k \in DOMAIN author THEN author[k] ELSE None]

\* Message(**res, _client=self._client)
MessageOf(res) ==
    [k \in DOMAIN res \cup {"client"} |-> IF k = "client" THEN TRUE ELSE res[k]]

\* the method `op` resumed with the data of the answer: edit returns self,
\* delete and pin return None, the others a Message made of the data; reply
\* reads res["author"] first, a KeyError when the data has none
Resumed(op, req, data) ==
    CASE op = "edit" -> Built([req EXCEPT !.st = "returned", !.returns = "self"])
      [] op \in {"delete", "pin"} ->
            Built([req EXCEPT !.st = "returned", !.returns = "None"])
      [] op = "reply" ->
            IF "author" \notin DOMAIN data THEN Raised("KeyError", "author")
            ELSE Built([req EXCEPT !.st = "returned", !.returns = "Message",
                           !.made = Some(MessageOf(
                               [data EXCEPT !.author = ReplyAuthor(@)]))])
      [] OTHER ->
            Built([req EXCEPT !.st = "returned", !.returns = "Message",
                              !.made = Some(MessageOf(data))])

\* a message with every field set, and the variations the methods are run on
FullMessage ==
    [client |-> TRUE, id |-> "m1", channel_id |-> "c1", flags |-> {},
     content |-> Py("str", <<"old">>),
     tts |-> Py("bool", <<"True">>), attachments |-> List(<<"A1">>),
     embeds |-> List(<<"E1", "E2">>), components |-> List(<<Row("C1")>>)]

StoredMessages ==
    {FullMessage,
     [FullMessage EXCEPT !.client = FALSE],
     [FullMessage EXCEPT !.flags = {"64"}],
     [FullMessage EXCEPT !.flags = {"SUPPRESS_EMBEDS"}, !.embeds = List(<<>>)],
     [FullMessage EXCEPT !.content = PyNone, !.tts = PyNone, !.attachments = PyNone,
                         !.embeds = PyNone, !.components = PyNone]}

\* the keyword arguments of Message.edit
MessageEditArgs ==
    [content : {MISSING, Py("str", <<"new">>)},
     tts : {MISSING, Py("bool", <<"True">>)},
     files : {MISSING, List(<<"f1", "f2">>), Py("File", <<"f1">>)},
     embeds : {MISSING, List(<<>>), Py("Embed", <<"E3">>),
               List([i \in 1..EmbedsLimit + 1 |-> "E"])},
     suppress_embeds : {MISSING, Py("bool", <<"True">>), Py("bool", <<"False">>)},
     allowed_mentions : {MISSING, Py("AllowedMentions", <<"given">>),
                         Py("dict", <<"given">>)},
     message_reference : {MISSING, PyNone, Py("MessageReference", <<"ref">>)},
     attachments : {MISSING, List(<<>>), List(<<"A2">>)},
     components : {MISSING, List(<<>>), List(<<Row("C2")>>)}]

\* the keyword arguments of Message.reply
MessageReplyArgs ==
    [content : {MISSING, Py("str", <<"new">>)},
     tts : {MISSING, Py("bool", <<"True">>)},
     embeds : {MISSING, List(<<>>), Py("Embed", <<"E3">>), List(<<"E1", "E2">>)},
     files : {MISSING, List(<<"f1", "f2">>), Py("File", <<"f1">>)},
     attachments : {MISSING, PyNone, List(<<"A2">>)},
     allowed_mentions : {MISSING, Py("AllowedMentions", <<"given">>),
                         Py("dict", <<"given">>)},
     stickers : {MISSING, PyNone, List(<<"S1">>)},
     components : {MISSING, List(<<>>), List(<<Row("C2")>>)}]

\* the arguments of delete (a reason, None by default) and of the methods
\* that take none
NoArgs == [reason |-> PyNone]
MessageDeleteArgs == {NoArgs, [reason |-> Py("str", <<"why">>)]}

\* the keyword arguments of _slash_edit whose _response is followed; with
\* `keys` false one of the six keys is missing, whatever the others hold
SlashEditFields ==
    [keys : {TRUE},
     embed : {None, Some("E0")},
     embeds : EmbedsInputs \cup {[kind |-> "list", items |-> <<>>],
                                 [kind |-> "list", items |-> <<"E1", "E2">>]},
     file : {None, Some("f1")},
     files : {None, Some(<<"f1", "f2">>)},
     allowed_mentions : {None, Some("given")},
     delete_after : {None}]
    \cup
    {[keys |-> FALSE, embed |-> None, embeds |-> e,
      file |-> None, files |-> None, allowed_mentions |-> None,
      delete_after |-> None] :
        e \in {[kind |-> "None", items |-> <<>>],
               [kind |-> "list", items |-> [i \in 1..(EmbedsLimit + 1) |-> "E"]]}}

\* a call of a method of the interactions Message
MessageInput(op, m, a) == [impl |-> "message", op |-> op, self |-> m, args |-> a]

\* the call whose result is followed: one _slash_edit, or one method of one
\* interactions Message
PayloadInput ==
    \/ \E f \in SlashEditFields, sam \in StateMentions :
          payIn = [impl |-> "slash", f |-> f, state |-> sam]
    \/ \E m \in StoredMessages, a \in MessageEditArgs :
          payIn = MessageInput("edit", m, a)
    \/ \E m \in StoredMessages, a \in MessageReplyArgs :
          payIn = MessageInput("reply", m, a)
    \/ \E m \in StoredMessages, a \in MessageDeleteArgs :
          payIn = MessageInput("delete", m, a)
    \/ \E m \in StoredMessages, op \in {"pin", "publish", "disable_all_components"} :
          payIn = MessageInput(op, m, NoArgs)

InitPayload ==
    /\ InitMessage
    /\ RestOption
    /\ RestEq
    /\ RestRoundTrip
    /\ RestCommand
    /\ PayloadInput
    /\ payOut = NotBuilt

\* _slash_edit with its _response followed: the call is counted and, on the
\* normal return, its files are closed (line 523)
BuildSlashResponse ==
    /\ payOut = NotBuilt
    /\ payIn.impl = "slash"
    /\ payOut' = SlashEditResponse(payIn.f, payIn.state)
    /\ SlashEditRun(payIn.f, payIn.state)
    /\ UNCHANGED <<optIn, optOut, eqIn, eqOut, rtIn, rtOut, cmdIn, cmdOut, payIn,
                   token, msgId, tasks>>

\* a method of the message called, up to its await
Called(op) ==
    /\ payOut = NotBuilt
    /\ payIn.impl = "message"
    /\ payIn.op = op
    /\ payOut' = MessageCall(op, payIn.self, payIn.args)
    /\ UNCHANGED <<optIn, optOut, eqIn, eqOut, rtIn, rtOut, cmdIn, cmdOut, message>>

\* Message.edit up to the call of the client
BuildEditPayload == Called("edit") /\ UNCHANGED payIn

\* Message.reply up to the call of the client
BuildReplyPayload == Called("reply") /\ UNCHANGED payIn

\* Message.delete, Message.pin and Message.publish up to the call of the client
SendPlain ==
    \E op \in {"delete", "pin", "publish"} : Called(op) /\ UNCHANGED payIn

\* Message.disable_all_components up to the call of the client: the stored
\* components are disabled before the request is made
DisableAllComponents ==
    /\ Called("disable_all_components")
    /\ payIn' = IF payIn.self.client
                THEN [payIn EXCEPT !.self.components = DisableAll(@)]
                ELSE payIn

\* the client answers the awaited request and the method resumes: an error
\* leaves the method, and edit refreshes the message from the data
\* (self.update(_dct)) before it returns
ClientAnswered ==
    /\ payIn.impl = "message"
    /\ payOut.err = "None"
    /\ payOut.val[1].st = "awaiting"
    /\ \E kind \in AnswerKinds :
          IF kind \in {"Forbidden", "OtherError"}
          THEN /\ payOut' = Raised(kind, "None")
               /\ UNCHANGED payIn
          ELSE LET data == AnswerData(kind, payIn.op, payIn.self, payOut.val[1])
               IN  /\ payOut' = Resumed(payIn.op, payOut.val[1], data)
                   /\ payIn' = IF payIn.op = "edit"
                               THEN [payIn EXCEPT !.self = Update(@, data)]
                               ELSE payIn
    /\ UNCHANGED <<optIn, optOut, eqIn, eqOut, rtIn, rtOut, cmdIn, cmdOut, message>>

NextPayload ==
    \/ BuildSlashResponse
    \/ BuildEditPayload
    \/ BuildReplyPayload
    \/ SendPlain
    \/ DisableAllComponents
    \/ ClientAnswered

SpecPayload == InitPayload /\ [][NextPayload]_vars

\* what the event loop runs on its own: the ready tasks and the timers
Loop ==
    \/ \E i \in 1..Len(tasks) : TaskStart(i)
    \/ \E i \in 1..Len(tasks) : TaskWake(i)
    \/ Tick
    \/ SuperDelete

\* the event loop keeps running (the process does not exit): while a task is
\* ready or a timer is pending, one of them is eventually served
Fairness == WF_vars(Loop)

FairSpec == Spec /\ Fairness

\* ------------------------------------------------------------------ claims
CallIds == 1..Len(calls)
TaskIds == 1..Len(tasks)

\* the answer to the channel-scoped delete of call c ("pending" until answered)
ChanRes(c) ==
    IF \E e \in log : e.call = c /\ e.surface = "channel"
    THEN (CHOOSE e \in log : e.call = c /\ e.surface = "channel").res
    ELSE "pending"

\* the interaction-token requests made for call c, by delete itself or its task
InteractionReqs(c) == {e \in log : e.call = c /\ e.surface = "interaction"}

\* the tasks scheduled by call c
TasksOf(c) == {i \in TaskIds : tasks[i].call = c}

Attempted(i) == tasks[i].st \in {"deleting", "done", "suppressed", "failed"}

\* C1: delete with no delay whose channel-scoped delete is answered Forbidden
\* makes exactly one interaction-token request, itself, with the stored token
\* and the message id, and schedules no task.
C1_OneImmediateFallback ==
    \A c \in CallIds :
        (calls[c].delay = None /\ ChanRes(c) = "Forbidden") =>
            /\ Cardinality(InteractionReqs(c)) = 1
            /\ \A e \in InteractionReqs(c) :
                   e.by = "caller" /\ e.tok = Some(token) /\ e.id = msgId
            /\ TasksOf(c) = {}

C1_Witness ==
    \E c \in CallIds :
        /\ calls[c].delay = None /\ ChanRes(c) = "Forbidden"
        /\ calls[c].outcome = "returned"

\* C2 as stated: every delete called with a delay (any value other than None)
\* whose channel-scoped delete is answered Forbidden schedules a task and
\* raises nothing to its caller.
C2_AnyDelayDeferred ==
    \A c \in CallIds :
        (calls[c].delay # None /\ ChanRes(c) = "Forbidden") =>
            /\ Cardinality(TasksOf(c)) = 1
            /\ calls[c].outcome = "returned"

\* C2 amended: delete called with a non-zero delay whose channel-scoped delete
\* is answered Forbidden schedules one task and returns; a Forbidden answer to
\* the task's request is suppressed in the task and the caller sees no error.
C2_DeferredForbiddenSwallowed ==
    \A c \in CallIds :
        (Truthy(calls[c].delay) /\ ChanRes(c) = "Forbidden") =>
            /\ Cardinality(TasksOf(c)) = 1
            /\ calls[c].outcome = "returned"
            /\ \A e \in InteractionReqs(c) :
                   /\ e.by = "task"
                   /\ e.res = "Forbidden" =>
                          \A i \in TasksOf(c) : tasks[i].st = "suppressed"

C2_Witness ==
    \E c \in CallIds :
        /\ Truthy(calls[c].delay)
        /\ \E e \in InteractionReqs(c) : e.by = "task" /\ e.res = "Forbidden"
        /\ \A i \in TasksOf(c) : tasks[i].st = "suppressed"
        /\ calls[c].outcome = "returned"

C4_OtherErrorPropagates ==
    \A c \in CallIds :
        ChanRes(c) = "OtherError" =>
            /\ calls[c].outcome = "OtherError"
            /\ InteractionReqs(c) = {}
            /\ TasksOf(c) = {}

C4_Witness ==
    \E c \in CallIds : ChanRes(c) = "OtherError" /\ calls[c].outcome = "OtherError"

\* C5: with no delay, a fallback request answered Forbidden makes delete raise
\* Forbidden, after exactly one request on each surface and with no task.
C5_ForbiddenRecoveredOnce ==
    \A c \in CallIds :
        \A e \in InteractionReqs(c) :
            (~Truthy(calls[c].delay) /\ e.res = "Forbidden") =>
                /\ calls[c].outcome = "Forbidden"
                /\ Cardinality({x \in log : x.call = c}) = 2
                /\ Cardinality(InteractionReqs(c)) = 1
                /\ TasksOf(c) = {}

C5_Witness ==
    \E c \in CallIds :
        /\ calls[c].delay = None
        /\ calls[c].outcome = "Forbidden"
        /\ \E e \in InteractionReqs(c) : e.res = "Forbidden"

\* C6: a deferred deletion that is still waiting when the message is deleted
\* through another path is cancelled: it never hands its request to the
\* transport.
C6_CancelledWhenDeletedElsewhere ==
    [][\A i \in TaskIds :
          (Gone(log) /\ ~tasks[i].goneAt /\ tasks[i].st \in {"created", "sleeping"}) =>
              tasks'[i].st # "deleting"]_vars

C8_SingleDeferredAttempt ==
    \A c \in CallIds :
        calls[c].delay # None => Cardinality(InteractionReqs(c)) <= 1

C8_Witness ==
    \E i \in TaskIds, j \in TaskIds :
        /\ tasks[i].st = "suppressed"
        /\ tasks[j].st = "failed"

\* a later edit has been made since task i was scheduled
EditedSince(i) == i <= Len(tasks) /\ nEdits > tasks[i].editsAt

\* C9: an edit leaves every scheduled deferred deletion as it was, and a
\* deferred deletion that saw a later edit still makes its attempt.
C9_EditKeepsDeferredDelete ==
    /\ [][nEdits' > nEdits =>
             \A i \in TaskIds : tasks'[i] = tasks[i]]_vars
    /\ <>[](\A i \in TaskIds : EditedSince(i) => Attempted(i))

C9_Witness ==
    \E i \in TaskIds :
        /\ tasks[i].st = "sleeping"
        /\ EditedSince(i)
        /\ edit.st = "returned"

\* C10: an option declaration without `type` fails with InteractionException
\* INCORRECT_COMMAND_DATA, whatever its other fields.
C10_TypeOmittedSchemaError ==
    (optOut # NotBuilt /\ optIn.type = None) =>
        /\ optOut.err = "InteractionException"
        /\ optOut.code = "INCORRECT_COMMAND_DATA"

\* a declaration that passes the validation of an option: `type` is given, a
\* subcommand group has entries, and the entries of a subcommand or group pass
RECURSIVE ValidDecl(_)
ValidDecl(d) ==
    /\ d.type # None
    /\ d.type = Some(SUBCOMMAND_GROUP) => d.options # <<>>
    /\ d.type[1] \in {SUBCOMMAND, SUBCOMMAND_GROUP} =>
           \A i \in 1..Len(d.options) : ValidDecl(d.options[i])

\* C11: an option declaration of type SUBCOMMAND_GROUP with an empty `options`
\* list fails with InteractionException INCORRECT_COMMAND_DATA.
C11_EmptyGroupSchemaError ==
    (/\ optOut # NotBuilt
     /\ optIn.type = Some(SUBCOMMAND_GROUP)
     /\ optIn.options = <<>>) =>
        /\ optOut.err = "InteractionException"
        /\ optOut.code = "INCORRECT_COMMAND_DATA"

\* C12: a subcommand or subcommand group declared with a non-empty list of
\* valid entries is built, with one option per entry in the order declared;
\* with an invalid descendant its construction fails.
C12_NestedOptionsBuilt ==
    (/\ optOut # NotBuilt
     /\ optIn.type \in {Some(SUBCOMMAND), Some(SUBCOMMAND_GROUP)}
     /\ optIn.options # <<>>) =>
        IF ValidDecl(optIn)
        THEN /\ optOut.err = "None"
             /\ Len(optOut.val[1].options) = Len(optIn.options)
             /\ \A i \in 1..Len(optIn.options) :
                    optOut.val[1].options[i].name = optIn.options[i].name
        ELSE optOut.err # "None"

Compared == eqOut.err = "None"
BothAre(cls) == eqOut.l[1].cls = cls /\ eqOut.r[1].cls = cls

\* C13: for constructed value entities x and y, x == y and y == x give the
\* same truth value and raise nothing, and x == x is true.
C13_EqReflexiveSymmetric ==
    Compared =>
        /\ eqOut.lr \in {"True", "False"}
        /\ eqOut.rl = eqOut.lr
        /\ eqIn.alias => eqOut.lr = "True"

\* C14: two BasePermission objects are equal exactly when their id, their type
\* and their state are equal.
C14_PermissionEqByIdKindState ==
    (Compared /\ BothAre("BasePermission")) =>
        eqOut.lr = Bool(/\ eqOut.l[1].obj.id = eqOut.r[1].obj.id
                        /\ eqOut.l[1].obj.type = eqOut.r[1].obj.type
                        /\ eqOut.l[1].obj.state = eqOut.r[1].obj.state)

\* the two commands compared are declared with the same name, description and
\* default_permission, and each with the options A and B in some order
SameButOptions ==
    /\ eqIn.left.cls = "BaseCommand" /\ eqIn.right.cls = "BaseCommand"
    /\ eqIn.left.kw.options # <<>> /\ eqIn.right.kw.options # <<>>
    /\ eqIn.left.kw.name = eqIn.right.kw.name
    /\ eqIn.left.kw.description = eqIn.right.kw.description
    /\ eqIn.left.kw.default_permission = eqIn.right.kw.default_permission

\* C15: two commands that differ in the order of their options only ([A, B]
\* against [B, A]) are not equal, and two whose options are the same in the
\* same order are equal.
C15_EqOrderSensitive ==
    (eqOut # NotCompared /\ SameButOptions) =>
        /\ Compared
        /\ eqOut.lr = Bool(eqIn.left.kw.options = eqIn.right.kw.options)

FourFields(c) ==
    <<c.obj.name, c.obj.description, c.obj.options, c.obj.default_permission>>

\* C16: two BaseCommand objects are equal exactly when their name, description,
\* options and default_permission are equal, whatever their id, application_id
\* and version.
C16_CommandEqFourFields ==
    (Compared /\ BothAre("BaseCommand")) =>
        eqOut.lr = Bool(FourFields(eqOut.l[1]) = FourFields(eqOut.r[1]))

C16_Witness ==
    /\ Compared /\ BothAre("BaseCommand") /\ ~eqIn.alias
    /\ eqOut.l[1].obj.id # eqOut.r[1].obj.id
    /\ eqOut.l[1].obj.version # eqOut.r[1].obj.version
    /\ eqOut.lr = "True"

\* C17: comparing two value entities of different classes gives False in both
\* directions and raises nothing.
C17_CrossKindFalse ==
    (Compared /\ eqOut.l[1].cls # eqOut.r[1].cls) =>
        eqOut.lr = "False" /\ eqOut.rl = "False"

C17_Witness ==
    /\ Compared
    /\ eqOut.l[1].cls = "BaseChoice" /\ eqOut.r[1].cls = "BaseCommand"
    /\ eqOut.l[1].obj.name = eqOut.r[1].obj.name
    /\ eqOut.lr = "False" /\ eqOut.rl = "False"

\* C18: parsing the registration payload of a command tree gives a command
\* with the name, description and default_permission of the tree and the
\* options of the tree in their order.
C18_RoundTrip ==
    rtOut # NotBuilt =>
        /\ rtOut.err = "None"
        /\ rtOut.val[1].name = rtIn.name
        /\ rtOut.val[1].description = rtIn.description
        /\ rtOut.val[1].default_permission = rtIn.default_permission
        /\ Len(rtOut.val[1].options) = Len(rtIn.options)
        /\ \A i \in 1..Len(rtIn.options) :
               /\ rtOut.val[1].options[i].obj.name = rtIn.options[i].name
               /\ rtOut.val[1].options[i].obj.description =
                      rtIn.options[i].description

\* C19: Command construction succeeds, stores `name` in lowercase, stores each
\* of base, sub and group in lowercase when given and as None when not.
C19_NamesLowercased ==
    cmdOut # NotBuilt =>
        /\ cmdOut.err = "None"
        /\ cmdOut.val[1].name = "ping"
        /\ cmdOut.val[1].base = IF cmdIn.base = None THEN None ELSE Some("base")
        /\ cmdOut.val[1].sub = IF cmdIn.sub = None THEN None ELSE Some("sub")
        /\ cmdOut.val[1].group = IF cmdIn.group = None THEN None ELSE Some("group")

\* C20: after Command construction has_description is true exactly when one of
\* description, base_description and group_description is non-empty, and
\* has_options, has_permissions and has_group are true exactly when options,
\* permissions and group are non-empty.
C20_DerivedFlags ==
    cmdOut # NotBuilt =>
        /\ cmdOut.err = "None"
        /\ cmdOut.val[1].has_description =
               (\E d \in {cmdIn.command.description, cmdIn.command.base_desc,
                          cmdIn.command.sub_group_desc} : d # None /\ d # Some(""))
        /\ cmdOut.val[1].has_options = (cmdIn.command.api_options # <<>>)
        /\ cmdOut.val[1].has_permissions = (cmdIn.command.api_permissions # <<>>)
        /\ cmdOut.val[1].has_group = (cmdIn.group # None)

\* C26: every file handle passed to an edit is closed when the edit is left,
\* whether it returns or raises.
C26_FilesClosedOnEveryExit ==
    edit.st \in {"returned", "raised"} => edit.closed = Range(edit.files)

\* C27: the token and the id of the message never change, and every
\* interaction-token delete request, made by delete or by a task, before or
\* after an edit, carries them.
C27_TokenAndIdImmutable ==
    /\ [][token' = token /\ msgId' = msgId]_vars
    /\ [](\A e \in log :
              e.surface = "interaction" => e.tok = Some(token) /\ e.id = msgId)

C27_Witness ==
    /\ nEdits > 0
    /\ \E e \in log : e.surface = "interaction" /\ e.by = "task"
    /\ \E e \in log : e.surface = "interaction" /\ e.by = "caller"

\* C28: a delete whose channel-scoped delete succeeds makes no
\* interaction-token request and schedules no task, with or without a delay;
\* a request on the interaction surface or a task exists only for a call whose
\* channel-scoped delete was answered Forbidden.
C28_FallbackOnlyAfterForbidden ==
    \A c \in CallIds :
        /\ ChanRes(c) = "ok" =>
               /\ InteractionReqs(c) = {}
               /\ TasksOf(c) = {}
               /\ calls[c].outcome = "returned"
        /\ (InteractionReqs(c) # {} \/ TasksOf(c) # {}) => ChanRes(c) = "Forbidden"

C28_Witness ==
    \E c \in CallIds, d \in CallIds :
        /\ Truthy(calls[c].delay) /\ ChanRes(c) = "ok"
        /\ calls[d].delay = None /\ ChanRes(d) = "ok"

\* C29: two options declared with the same name, description, required flag,
\* options and choices are equal when their `type` is the same and not equal
\* when it differs, and the comparison raises nothing.
C29_OptionEqAllFields ==
    (/\ eqOut # NotCompared
     /\ eqIn.left.cls = "BaseOption" /\ eqIn.right.cls = "BaseOption"
     /\ [eqIn.left.kw EXCEPT !.type = None] = [eqIn.right.kw EXCEPT !.type = None]) =>
        /\ Compared
        /\ eqOut.lr = Bool(eqIn.left.kw.type = eqIn.right.kw.type)

\* the entries are n >= 1 declarations of permission overrides {id, type, state}
OverrideEntries(entries) ==
    /\ entries # <<>>
    /\ \A i \in 1..Len(entries) : DOMAIN entries[i] = {"id", "type", "state"}

\* C30: a BaseGuildPermission constructed with n permission-override
\* declarations is built, and its `permissions` are n BasePermission objects
\* with the declared id, type and state, in the order declared.
C30_GuildPermissionsBuilt ==
    (/\ eqOut # NotCompared
     /\ eqIn.alias
     /\ eqIn.left.cls = "BaseGuildPermission"
     /\ OverrideEntries(eqIn.left.kw.permissions)) =>
        /\ Compared
        /\ Len(eqOut.l[1].obj.permissions) = Len(eqIn.left.kw.permissions)
        /\ \A i \in 1..Len(eqIn.left.kw.permissions) :
               /\ eqOut.l[1].obj.permissions[i].cls = "BasePermission"
               /\ eqOut.l[1].obj.permissions[i].obj = eqIn.left.kw.permissions[i]

\* ---- edit payloads (SpecPayload)
SlashRun == payIn.impl = "slash" /\ payOut # NotBuilt
EditRun == payIn.impl = "message" /\ payIn.op = "edit" /\ payOut # NotBuilt

\* the request of an edit is with the client and the message is as it was
\* when edit was called
EditSent == EditRun /\ payOut.err = "None" /\ payOut.val[1].st = "awaiting"
TooManyMsg == "Do not provide more than 10 embeds."
BothFilesMsg == "You can't use both file and files kwargs at the same time."

\* the embeds of a _slash_edit call pass the two embed checks
EmbedsPass(f) == f.keys /\ f.embeds.kind = "list" /\ Len(f.embeds.items) <= EmbedsLimit

\* C21: an edit without explicit embeds sends the message's current embeds,
\* unchanged and in order, and an edit with embeds=[] sends an empty list
C21_EmbedsKeptOrCleared ==
    /\ EditSent /\ payIn.args.embeds = MISSING
        => payOut.val[1].payload.embeds = JsonAll(payIn.self.embeds.items)
    /\ EditSent /\ payIn.args.embeds = List(<<>>)
        => payOut.val[1].payload.embeds = <<>>
    /\ SlashRun /\ payOut.err = "None" /\ payIn.f.keys /\ payIn.f.embeds.items = <<>>
        => payOut.val[1].embeds = <<>>

C21_Witness ==
    /\ EditSent
    /\ payIn.args.embeds = MISSING
    /\ payOut.val[1].payload.embeds = <<Json("E1"), Json("E2")>>

\* C22: a field left unspecified in an edit (content, tts, attachments) is sent
\* with the message's stored value, so a partial edit resets no untouched field
C22_UnspecifiedKeepStored ==
    EditSent =>
        /\ payIn.args.content = MISSING
            => payOut.val[1].payload.content = payIn.self.content
        /\ payIn.args.tts = MISSING
            => payOut.val[1].payload.tts = payIn.self.tts
        /\ payIn.args.attachments = MISSING /\ payIn.args.files = MISSING
            => payOut.val[1].payload.attachments = JsonAll(payIn.self.attachments.items)

\* C23: an edit with both file and files fails with FormatError and sends
\* nothing, and an edit with only one of them does not fail with that error
C23_FileAndFilesExclusive ==
    SlashRun /\ EmbedsPass(payIn.f) =>
        /\ payIn.f.file # None /\ payIn.f.files # None
            => payOut = Raised("FormatError", BothFilesMsg)
        /\ (payIn.f.file # None) # (payIn.f.files # None)
            => payOut # Raised("FormatError", BothFilesMsg)

\* C24: every edit with more than 10 embeds fails with FormatError before
\* anything is sent
C24_AnyEditRejectsElevenEmbeds ==
    /\ SlashRun /\ payIn.f.embeds.kind = "list"
           /\ Len(payIn.f.embeds.items) > EmbedsLimit
        => payOut.err = "FormatError"
    /\ EditRun /\ payIn.args.embeds.kind = "list"
           /\ Len(payIn.args.embeds.items) > EmbedsLimit
        => payOut.err = "FormatError"

\* the allowed_mentions the contract resolves for a _slash_edit call: the
\* caller's, else the client's default, else nothing
ResolvedMentions(f, stateAM) ==
    IF f.allowed_mentions # None THEN f.allowed_mentions[1]
    ELSE IF stateAM # None THEN stateAM[1]
    ELSE "empty"

\* C25: allowed_mentions supplied by the caller are put in the payload
\* verbatim, and the client's default policy is used only when none is supplied
C25_AllowedMentionsResolved ==
    /\ SlashRun /\ EmbedsPass(payIn.f) /\ ~BothFiles(payIn.f) =>
        /\ payOut.err = "None"
        /\ payOut.val[1].allowed_mentions.dict = ResolvedMentions(payIn.f, payIn.state)
    /\ EditSent /\ payIn.args.allowed_mentions.kind = "dict"
        => payOut.val[1].payload.allowed_mentions = payIn.args.allowed_mentions

====
